---- MODULE Spec2Model ----
(***************************************************************************)
(* Secure media delivery of the stream repository: AuthService             *)
(* (src/src/services/auth_service.py), the StreamingSession table          *)
(* (src/src/models/access.py), the File table and its deletion             *)
(* (src/src/models/file.py, src/src/services/file_service.py) and the      *)
(* position route (src/src/routes/streaming.py).                           *)
(*                                                                         *)
(* Time is counted in ticks, TicksPerSecond ticks to the second, so that   *)
(* the truncation of exp/iat to whole seconds done by jwt.encode is part   *)
(* of the model; an hour of the configuration is scaled to one second.     *)
(* Every operation is one atomic step at the time "now".                   *)
(*                                                                         *)
(* Spec            the operations of AuthService and the position route    *)
(* SpecConcurrent  generate_stream_link of concurrent requests, step by    *)
(*                 step                                                    *)
(* SpecRoutes      the stream, download and data routes with the file      *)
(*                 service                                                 *)
(* SpecAdmin       revocation, sweep, admin cleanup and file deletion      *)
(* SpecRange       the handling of the Range header as a function of the   *)
(*                 file size and the header                                *)
(* SpecInterleaved update_streaming_position step by step, interleaved     *)
(*                 with revocation, the sweep and verification             *)
(***************************************************************************)
EXTENDS Integers, FiniteSets, Sequences, TLC

VARIABLES now, sessions, nextId, files, issued, revoked, last,
          disk, stats, access_logs, pending, inflight, http

vars == <<now, sessions, nextId, files, issued, revoked, last,
          disk, stats, access_logs, pending, inflight, http>>

(* The files on disk, the file statistics, the access log, the link       *)
(* requests in flight, the position updates in flight and the last HTTP    *)
(* exchange of the data route: the state of the file service, of the HTTP  *)
(* routes and of the requests that run concurrently.                       *)
routeVars == <<disk, stats, access_logs, pending, inflight, http>>

----------------------------------------------------------------------------
(* Bounds of the model *)

TicksPerSecond == 2
MaxLinks == 2

(* Input domains *)

FileIds == {1}
UserIds == {1}
IssuedPasswords == {"pw1"}
Passwords == {"pw1", "pw2"}
LinkTypes == {"stream", "download"}
Positions == {1}
NoValue == "None"
NoId == 0
NoHash == <<>>

----------------------------------------------------------------------------
(* config.py *)

HourTicks == TicksPerSecond
STREAM_TOKEN_EXPIRES == 6 * HourTicks
DOWNLOAD_TOKEN_EXPIRES == 1 * HourTicks

(* Links are issued on a whole second and off it, and the clock runs      *)
(* until every one of them has expired.                                    *)
IssueTimes == {0, 1}

MaxTime == Cardinality(IssueTimes) + STREAM_TOKEN_EXPIRES

----------------------------------------------------------------------------
(* models/access.py: the columns of StreamingSession.  A keyword of        *)
(* filter_by, or an attribute read on the class or on a loaded row, that   *)
(* is not one of them raises (InvalidRequestError / AttributeError).       *)

StreamingSessionColumns ==
    {"id", "user_id", "file_id", "session_token", "expires_at",
     "last_active", "play_position"}

StreamingSessionMethods == {"to_dict"}

HasColumn(name) == name \in StreamingSessionColumns

HasMethod(name) == name \in StreamingSessionMethods

(* StreamingSession(user_id, file_id, session_token, expires_at) with the  *)
(* column defaults last_active = utcnow, play_position = 0.                *)
NewStreamingSession(id, uid, fid, st, exp) ==
    [id |-> id, user_id |-> uid, file_id |-> fid, session_token |-> st,
     expires_at |-> exp, last_active |-> now, play_position |-> 0]

(* StreamingSession.query.filter_by(session_token=st).first() *)
RowsByToken(st) == {s \in sessions : s.session_token = st}

FirstRow(rows) == CHOOSE s \in rows : \A r \in rows : s.id <= r.id

----------------------------------------------------------------------------
(* jwt.encode / jwt.decode (HS256).  A datetime exp or iat is written as   *)
(* whole seconds since the epoch; decode raises ExpiredSignatureError      *)
(* when exp <= now.                                                        *)

ToEpochSeconds(t) == t \div TicksPerSecond

HashPassword(p) == <<"sha256", p>>

Payload(fid, uid, st, type, pp, ph, expiresAt) ==
    [file_id |-> fid, user_id |-> uid, session_token |-> st, type |-> type,
     password_protected |-> pp, password_hash |-> ph,
     exp |-> ToEpochSeconds(expiresAt), iat |-> ToEpochSeconds(now),
     signed |-> TRUE]

SignatureExpired(token) == token.exp * TicksPerSecond <= now

(* jwt.decode: "invalid" (InvalidTokenError), "expired"                    *)
(* (ExpiredSignatureError) or "payload".  The signature is verified        *)
(* before the claims are validated.                                        *)
JwtDecode(token) ==
    IF ~token.signed THEN "invalid"
    ELSE IF SignatureExpired(token) THEN "expired"
    ELSE "payload"

----------------------------------------------------------------------------
(* State *)

(* The record of the last call: its name, the session token and the       *)
(* position it was about, and what it returned.                            *)
Call(op, st, pos, res) == [op |-> op, st |-> st, pos |-> pos, res |-> res]

(* History of a link handed out: its token, the time of the call, the TTL  *)
(* it was issued with and the operation that issued it.                    *)
Issue(token, ttl, via) ==
    [token |-> token, issued_at |-> now, ttl |-> ttl, via |-> via]

IssuedTokens == {i.token : i \in issued}

(* secrets.token_urlsafe(32): the value drawn is either the token of an   *)
(* existing row or a new one; new tokens are named in order of creation.   *)
UsedSessionTokens == {s.session_token : s \in sessions}

SessionTokenInputs == UsedSessionTokens \cup {nextId}

NoToken ==
    [file_id |-> NoId, user_id |-> NoId, session_token |-> NoId,
     type |-> NoValue, password_protected |-> FALSE, password_hash |-> NoHash,
     exp |-> 0, iat |-> 0, signed |-> FALSE]

(* The tokens a client can present: the issued ones and a string that    *)
(* does not decode.                                                        *)
PresentedTokens == IssuedTokens \cup {NoToken}

----------------------------------------------------------------------------
(* routes/streaming.py stream_file_data, lines 85-146: the response to a   *)
(* request for the data of a file of size file_size, as a function of the  *)
(* Range header.                                                           *)

(* The chunk read by generate() *)
ChunkSize == 8192

(* Bound of the small file sizes and offsets *)
MaxFileSize == 3

(* A field of the header that is the empty string, a header that is not    *)
(* sent, and a response header that is not set.                            *)
NoRange == 0 - 1

FileSizes == 0..MaxFileSize \cup {ChunkSize + 1}

RangeOffsets ==
    0..(MaxFileSize + 1) \cup {ChunkSize - 1, ChunkSize, ChunkSize + 1}

(* Range: bytes=<first>-<second>, either field possibly empty; no header;  *)
(* a value whose fields int() rejects or that holds no "-"; or a list of   *)
(* ranges bytes=<first>-<second>,<more>, of which first and second are     *)
(* kept.                                                                   *)
RangeHeader(kind, first, second) ==
    [kind |-> kind, first |-> first, second |-> second]

NoRangeHeader == RangeHeader("absent", NoRange, NoRange)

MalformedRangeHeader == RangeHeader("malformed", NoRange, NoRange)

RangeHeaders ==
    {RangeHeader("bytes", a, b) :
        a \in RangeOffsets \cup {NoRange}, b \in RangeOffsets \cup {NoRange}}
    \cup {RangeHeader("multi", a, b) :
        a \in RangeOffsets \cup {NoRange}, b \in RangeOffsets \cup {NoRange}}
    \cup {NoRangeHeader, MalformedRangeHeader}

Min2(a, b) == IF a <= b THEN a ELSE b

Max2(a, b) == IF a >= b THEN a ELSE b

NoContentRange == [first |-> NoRange, last |-> NoRange, size |-> NoRange]

(* status, Content-Range, Content-Length, Accept-Ranges, and the body as   *)
(* the count of bytes starting at offset first of the file                 *)
Response(status, contentRange, contentLength, acceptRanges, first, count) ==
    [status |-> status, content_range |-> contentRange,
     content_length |-> contentLength, accept_ranges |-> acceptRanges,
     body |-> [first |-> first, count |-> count]]

ErrorResponse(status) ==
    Response(status, NoContentRange, NoRange, "None", 0, 0)

(* generate(): f.seek(byte_start), then chunks of min(8192, remaining)     *)
(* until remaining is 0 or a read returns nothing; f.read of a negative    *)
(* size reads to the end of the file.  The number of bytes yielded.        *)
RECURSIVE ReadChunks(_, _, _)
ReadChunks(pos, remaining, file_size) ==
    IF remaining = 0 THEN 0
    ELSE LET chunk_size == Min2(ChunkSize, remaining)
             left == Max2(0, file_size - pos)
             chunk == IF chunk_size < 0 THEN left ELSE Min2(chunk_size, left)
         IN IF chunk = 0 THEN 0
            ELSE chunk + ReadChunks(pos + chunk, remaining - chunk, file_size)

(* The lengths of the chunks generate() yields, in order *)
RECURSIVE ChunkLengths(_, _, _)
ChunkLengths(pos, remaining, file_size) ==
    IF remaining = 0 THEN <<>>
    ELSE LET chunk_size == Min2(ChunkSize, remaining)
             left == Max2(0, file_size - pos)
             chunk == IF chunk_size < 0 THEN left ELSE Min2(chunk_size, left)
         IN IF chunk = 0 THEN <<>>
            ELSE <<chunk>> \o ChunkLengths(pos + chunk, remaining - chunk,
                                           file_size)

PartialContent(file_size, header) ==
    LET byte_start == Max2(0, IF header.first # NoRange THEN header.first
                                                        ELSE 0)
        byte_end == Min2(file_size - 1,
                         IF header.second # NoRange THEN header.second
                                                    ELSE file_size - 1)
        content_length == byte_end - byte_start + 1
    IN Response("206",
                [first |-> byte_start, last |-> byte_end, size |-> file_size],
                content_length, "bytes", byte_start,
                ReadChunks(byte_start, content_length, file_size))

(* The header is split at every "-" (line 100): of a list of ranges the   *)
(* second field is "<second>,<first of the next range>", which int()       *)
(* rejects with ValueError (line 104), and the route answers 500.          *)
RangeResponse(file_size, header) ==
    IF header.kind = "absent"
      THEN Response("200", NoContentRange, file_size, "bytes", 0, file_size)
    ELSE IF header.kind = "malformed" THEN ErrorResponse("500")
    ELSE IF header.kind = "multi" THEN ErrorResponse("500")
    ELSE PartialContent(file_size, header)

Exchange(file_size, header, response) ==
    [file_size |-> file_size, header |-> header, response |-> response]

NoExchange == Exchange(NoRange, NoRangeHeader, ErrorResponse("None"))

(* models/file.py: download_count and stream_count default to 0,         *)
(* last_accessed to NULL.                                                  *)
NewFileStats ==
    [download_count |-> 0, stream_count |-> 0, last_accessed |-> NoId]

(* The file record of FileIds has been uploaded; no link exists yet. *)
Init ==
    /\ now = 0
    /\ sessions = {}
    /\ nextId = 1
    /\ files = FileIds
    /\ issued = {}
    /\ revoked = {}
    /\ last = Call("init", NoId, 0, NoValue)
    /\ disk = FileIds
    /\ stats = [fid \in FileIds |-> NewFileStats]
    /\ access_logs = <<>>
    /\ pending = {}
    /\ inflight = {}
    /\ http = NoExchange

(* datetime.utcnow() advances; no call has been made at the new instant *)
Tick ==
    /\ now < MaxTime
    /\ now' = now + 1
    /\ last' = Call("tick", NoId, 0, NoValue)
    /\ UNCHANGED <<sessions, nextId, files, issued, revoked>>
    /\ UNCHANGED routeVars

CanIssue == now \in IssueTimes /\ Cardinality(issued) < MaxLinks

----------------------------------------------------------------------------
(* AuthService.generate_stream_link: the session row is added and          *)
(* committed, then the token is encoded.  secrets.token_urlsafe draws the  *)
(* session token; the commit fails on a duplicate session_token (unique    *)
(* column) or when the database is unavailable, and the call then rolls    *)
(* back and returns None.                                                  *)

StreamLinkToken(fid, uid, st) ==
    Payload(fid, uid, st, "stream", FALSE, NoHash,
            now + STREAM_TOKEN_EXPIRES)

(* a session_token column without the unique index *)
CommitWithoutUniqueIndex(st, dbOk) == dbOk

CommitSucceeds(st, dbOk) == dbOk /\ RowsByToken(st) = {}

(* generate_stream_link whose failure comes after the commit, while the   *)
(* token is encoded: the row is stored and None is returned.               *)
GenerateStreamLinkFailsAfterCommit(fid, uid, st, dbOk) ==
    /\ CanIssue
    /\ IF RowsByToken(st) = {}
         THEN /\ sessions' = sessions \cup
                    {NewStreamingSession(nextId, uid, fid, st,
                                         now + STREAM_TOKEN_EXPIRES)}
              /\ nextId' = nextId + 1
              /\ issued' = IF dbOk
                    THEN issued \cup
                           {Issue(StreamLinkToken(fid, uid, st),
                                  STREAM_TOKEN_EXPIRES, "generate_stream_link")}
                    ELSE issued
              /\ last' = Call("generate_stream_link", st, 0,
                              IF dbOk THEN "link" ELSE "None")
         ELSE /\ UNCHANGED <<sessions, nextId, issued>>
              /\ last' = Call("generate_stream_link", st, 0, "None")
    /\ UNCHANGED <<now, files, revoked>>
    /\ UNCHANGED routeVars

GenerateStreamLink(fid, uid, st, dbOk) ==
    /\ CanIssue
    /\ IF CommitSucceeds(st, dbOk)
         THEN /\ sessions' = sessions \cup
                    {NewStreamingSession(nextId, uid, fid, st,
                                         now + STREAM_TOKEN_EXPIRES)}
              /\ nextId' = nextId + 1
              /\ issued' = issued \cup
                    {Issue(StreamLinkToken(fid, uid, st),
                           STREAM_TOKEN_EXPIRES, "generate_stream_link")}
              /\ last' = Call("generate_stream_link", st, 0, "link")
         ELSE /\ UNCHANGED <<sessions, nextId, issued>>
              /\ last' = Call("generate_stream_link", st, 0, "None")
    /\ UNCHANGED <<now, files, revoked>>
    /\ UNCHANGED routeVars

(* AuthService.generate_download_link *)

DownloadLinkToken(fid, uid) ==
    Payload(fid, uid, NoId, "download", FALSE, NoHash,
            now + DOWNLOAD_TOKEN_EXPIRES)

(* generate_download_link written like generate_stream_link: it also     *)
(* stores a session row.                                                   *)
GenerateDownloadLinkWithSession(fid, uid) ==
    /\ CanIssue
    /\ sessions' = sessions \cup
          {NewStreamingSession(nextId, uid, fid, nextId,
                               now + DOWNLOAD_TOKEN_EXPIRES)}
    /\ nextId' = nextId + 1
    /\ issued' = issued \cup
          {Issue(DownloadLinkToken(fid, uid), DOWNLOAD_TOKEN_EXPIRES,
                 "generate_download_link")}
    /\ last' = Call("generate_download_link", NoId, 0, "link")
    /\ UNCHANGED <<now, files, revoked>>
    /\ UNCHANGED routeVars

GenerateDownloadLink(fid, uid) ==
    /\ CanIssue
    /\ issued' = issued \cup
          {Issue(DownloadLinkToken(fid, uid), DOWNLOAD_TOKEN_EXPIRES,
                 "generate_download_link")}
    /\ last' = Call("generate_download_link", NoId, 0, "link")
    /\ UNCHANGED <<now, sessions, nextId, files, revoked>>
    /\ UNCHANGED routeVars

(* AuthService.generate_password_protected_link *)

PasswordLinkExpires(linkType) ==
    IF linkType = "stream" THEN STREAM_TOKEN_EXPIRES
                           ELSE DOWNLOAD_TOKEN_EXPIRES

PasswordLinkToken(fid, uid, pw, linkType) ==
    Payload(fid, uid, NoId, linkType, TRUE, HashPassword(pw),
            now + PasswordLinkExpires(linkType))

GeneratePasswordProtectedLink(fid, uid, pw, linkType) ==
    /\ CanIssue
    /\ issued' = issued \cup
          {Issue(PasswordLinkToken(fid, uid, pw, linkType),
                 PasswordLinkExpires(linkType),
                 "generate_password_protected_link")}
    /\ last' = Call("generate_password_protected_link", NoId, 0, "link")
    /\ UNCHANGED <<now, sessions, nextId, files, revoked>>
    /\ UNCHANGED routeVars

----------------------------------------------------------------------------
(* AuthService.verify_stream_token.  The result is the error message, or   *)
(* "ok" when the call returns the file, user and session; rows is the      *)
(* session table after the call.                                           *)

Outcome(res, rows) == [res |-> res, rows |-> rows]

(* filter_by(session_token, file_id, user_id, is_active=True) *)
ActiveSessionRows(token) ==
    {s \in sessions : /\ s.session_token = token.session_token
                      /\ s.file_id = token.file_id
                      /\ s.user_id = token.user_id
                      /\ s.is_active}

(* verify_stream_token without the session lookup: the token alone        *)
(* decides.                                                                *)
VerifyStreamTokenWithoutSession(token) ==
    IF JwtDecode(token) = "expired" THEN Outcome("Token expired", sessions)
    ELSE IF JwtDecode(token) = "invalid"
      THEN Outcome("Invalid token", sessions)
    ELSE IF token.type # "stream"
      THEN Outcome("Invalid token type", sessions)
    ELSE IF token.file_id \notin files
      THEN Outcome("File not found", sessions)
    ELSE Outcome("ok", sessions)

VerifyStreamTokenOutcome(token) ==
    IF JwtDecode(token) = "expired" THEN Outcome("Token expired", sessions)
    ELSE IF JwtDecode(token) = "invalid"
      THEN Outcome("Invalid token", sessions)
    ELSE IF token.type # "stream"
      THEN Outcome("Invalid token type", sessions)
    ELSE IF ~HasColumn("is_active")
      THEN Outcome("Token verification failed", sessions)
    ELSE IF ActiveSessionRows(token) = {}
      THEN Outcome("Invalid or expired session", sessions)
    ELSE IF ~HasMethod("is_expired")
      THEN Outcome("Token verification failed", sessions)
    ELSE LET session == FirstRow(ActiveSessionRows(token)) IN
      IF now > session.expires_at
        THEN Outcome("Session expired",
                     (sessions \ {session})
                         \cup {[session EXCEPT !.is_active = FALSE]})
      ELSE IF token.file_id \notin files
        THEN Outcome("File not found", sessions)
      ELSE Outcome("ok", sessions)

VerifyStreamToken(token) ==
    /\ sessions' = VerifyStreamTokenOutcome(token).rows
    /\ last' = Call("verify_stream_token", token.session_token, 0,
                    VerifyStreamTokenOutcome(token).res)
    /\ UNCHANGED <<now, nextId, files, issued, revoked>>
    /\ UNCHANGED routeVars

(* AuthService.verify_download_token *)

(* verify_download_token without the check of the type claim *)
VerifyDownloadTokenAnyKind(token) ==
    IF JwtDecode(token) = "expired" THEN "Token expired"
    ELSE IF JwtDecode(token) = "invalid" THEN "Invalid token"
    ELSE IF token.file_id \notin files THEN "File not found"
    ELSE "ok"

(* verify_download_token that also asks that no session of the token's    *)
(* user for the file has been revoked                                      *)
VerifyDownloadTokenRevocable(token) ==
    IF JwtDecode(token) = "expired" THEN "Token expired"
    ELSE IF JwtDecode(token) = "invalid" THEN "Invalid token"
    ELSE IF token.type # "download" THEN "Invalid token type"
    ELSE IF \E s \in sessions :
               /\ s.user_id = token.user_id
               /\ s.file_id = token.file_id
               /\ s.session_token \in revoked
      THEN "Invalid or expired session"
    ELSE IF token.file_id \notin files THEN "File not found"
    ELSE "ok"

VerifyDownloadTokenResult(token) ==
    IF JwtDecode(token) = "expired" THEN "Token expired"
    ELSE IF JwtDecode(token) = "invalid" THEN "Invalid token"
    ELSE IF token.type # "download" THEN "Invalid token type"
    ELSE IF token.file_id \notin files THEN "File not found"
    ELSE "ok"

VerifyDownloadToken(token) ==
    /\ last' = Call("verify_download_token", token.session_token, 0,
                    VerifyDownloadTokenResult(token))
    /\ UNCHANGED <<now, sessions, nextId, files, issued, revoked>>
    /\ UNCHANGED routeVars

(* AuthService.verify_password_protected_token *)

VerifyPasswordProtectedTokenResult(token, password) ==
    IF JwtDecode(token) = "expired" THEN "Token expired"
    ELSE IF JwtDecode(token) = "invalid" THEN "Invalid token"
    ELSE IF ~token.password_protected
      THEN "Token is not password protected"
    ELSE IF HashPassword(password) # token.password_hash
      THEN "Invalid password"
    ELSE IF token.file_id \notin files THEN "File not found"
    ELSE "ok"

VerifyPasswordProtectedToken(token, password) ==
    /\ last' = Call("verify_password_protected_token", token.session_token,
                    0, VerifyPasswordProtectedTokenResult(token, password))
    /\ UNCHANGED <<now, sessions, nextId, files, issued, revoked>>
    /\ UNCHANGED routeVars

----------------------------------------------------------------------------
(* AuthService.update_streaming_position: reading session.is_active (or    *)
(* calling is_expired / update_position) on a row whose class does not     *)
(* define it raises, and the except clause returns False.                  *)

(* update_streaming_position with a sliding expiry: a call for an         *)
(* existing row stores the position and extends expires_at.                *)
UpdateStreamingPositionRenewing(st, position) ==
    IF RowsByToken(st) = {} THEN Outcome("False", sessions)
    ELSE LET session == FirstRow(RowsByToken(st)) IN
      Outcome("True",
              (sessions \ {session})
                  \cup {[session EXCEPT
                            !.play_position = position,
                            !.expires_at = now + STREAM_TOKEN_EXPIRES]})

(* update_streaming_position that selects the rows by the session's file  *)
(* instead of its token.                                                   *)
UpdateStreamingPositionByFile(st, position) ==
    IF RowsByToken(st) = {} THEN Outcome("False", sessions)
    ELSE LET session == FirstRow(RowsByToken(st)) IN
      Outcome("True",
              {IF s.file_id = session.file_id
                 THEN [s EXCEPT !.play_position = position] ELSE s :
               s \in sessions})

(* update_streaming_position that writes whenever the row exists, with    *)
(* no check of the session's liveness.                                     *)
UpdateStreamingPositionUnguarded(st, position) ==
    IF RowsByToken(st) = {} THEN Outcome("False", sessions)
    ELSE LET session == FirstRow(RowsByToken(st)) IN
      Outcome("True",
              (sessions \ {session})
                  \cup {[session EXCEPT !.play_position = position]})

UpdateStreamingPositionOutcome(st, position) ==
    IF RowsByToken(st) = {} THEN Outcome("False", sessions)
    ELSE IF ~HasColumn("is_active") THEN Outcome("False", sessions)
    ELSE LET session == FirstRow(RowsByToken(st)) IN
      IF ~session.is_active THEN Outcome("False", sessions)
      ELSE IF ~HasMethod("is_expired") THEN Outcome("False", sessions)
      ELSE IF now > session.expires_at THEN Outcome("False", sessions)
      ELSE IF ~HasMethod("update_position") THEN Outcome("False", sessions)
      ELSE Outcome("True",
                   (sessions \ {session})
                       \cup {[session EXCEPT !.last_position = position]})

UpdateStreamingPosition(st, position) ==
    /\ sessions' = UpdateStreamingPositionOutcome(st, position).rows
    /\ last' = Call("update_streaming_position", st, position,
                    UpdateStreamingPositionOutcome(st, position).res)
    /\ UNCHANGED <<now, nextId, files, issued, revoked>>
    /\ UNCHANGED routeVars

(* AuthService.get_streaming_position: the position returned, 0.0 when     *)
(* there is no usable session or the read raises.                          *)

GetStreamingPositionResult(st) ==
    IF RowsByToken(st) = {} THEN 0
    ELSE IF ~HasColumn("is_active") THEN 0
    ELSE LET session == FirstRow(RowsByToken(st)) IN
      IF ~session.is_active THEN 0
      ELSE IF ~HasMethod("is_expired") THEN 0
      ELSE IF now > session.expires_at THEN 0
      ELSE IF ~HasColumn("last_position") THEN 0
      ELSE session.last_position

GetStreamingPosition(st) ==
    /\ last' = Call("get_streaming_position", st,
                    GetStreamingPositionResult(st), "position")
    /\ UNCHANGED <<now, sessions, nextId, files, issued, revoked>>
    /\ UNCHANGED routeVars

(* AuthService.revoke_streaming_session: session.is_active = False sets a  *)
(* plain attribute on the loaded object when is_active is not a column,    *)
(* so the commit writes nothing.                                           *)

RevokeStreamingSessionOutcome(st, dbOk) ==
    IF RowsByToken(st) = {} THEN Outcome("False", sessions)
    ELSE IF ~dbOk THEN Outcome("False", sessions)
    ELSE IF ~HasColumn("is_active") THEN Outcome("True", sessions)
    ELSE LET session == FirstRow(RowsByToken(st)) IN
      Outcome("True",
              (sessions \ {session})
                  \cup {[session EXCEPT !.is_active = FALSE]})

RevokeStreamingSession(st, dbOk) ==
    /\ sessions' = RevokeStreamingSessionOutcome(st, dbOk).rows
    /\ revoked' = IF RevokeStreamingSessionOutcome(st, dbOk).res = "True"
                    THEN revoked \cup {st} ELSE revoked
    /\ last' = Call("revoke_streaming_session", st, 0,
                    RevokeStreamingSessionOutcome(st, dbOk).res)
    /\ UNCHANGED <<now, nextId, files, issued>>
    /\ UNCHANGED routeVars

(* AuthService.cleanup_expired_sessions: StreamingSession.is_active in     *)
(* the filter raises AttributeError; the except clause rolls back.         *)

CleanupExpiredSessionsRows ==
    IF ~HasColumn("is_active") THEN sessions
    ELSE {IF s.expires_at < now /\ s.is_active
            THEN [s EXCEPT !.is_active = FALSE] ELSE s : s \in sessions}

(* The sweep ends in its except clause (lines 230-232). *)
CleanupExpiredSessionsFails == ~HasColumn("is_active")

CleanupExpiredSessions ==
    /\ sessions' = CleanupExpiredSessionsRows
    /\ last' = Call("cleanup_expired_sessions", NoId, 0, "None")
    /\ UNCHANGED <<now, nextId, files, issued, revoked>>
    /\ UNCHANGED routeVars

(* models/access.py: the columns of AccessLog *)
AccessLogColumns ==
    {"id", "user_id", "file_id", "action", "ip_address", "user_agent",
     "timestamp"}

(* routes/admin.py cleanup_system: POST /admin/cleanup.  The sweep runs    *)
(* (and commits what it changed); AccessLog.accessed_at then raises        *)
(* AttributeError, the route rolls back and answers 500.  With the column  *)
(* the logs older than thirty days would be deleted.                       *)
ThirtyDays == 30 * 24 * HourTicks

CleanupSystemLogs ==
    IF "accessed_at" \notin AccessLogColumns THEN access_logs
    ELSE SelectSeq(access_logs,
                   LAMBDA e : ~(e.accessed_at < now - ThirtyDays))

CleanupSystemResult ==
    IF "accessed_at" \notin AccessLogColumns THEN "500" ELSE "200"

CleanupSystem ==
    /\ sessions' = CleanupExpiredSessionsRows
    /\ access_logs' = CleanupSystemLogs
    /\ last' = Call("POST cleanup", NoId, 0, CleanupSystemResult)
    /\ UNCHANGED <<now, nextId, files, issued, revoked>>
    /\ UNCHANGED <<disk, stats, pending, inflight, http>>

(* FileService.delete_file: the physical file is removed first; then      *)
(* db.session.delete(file) sets file_id of the file's streaming_sessions   *)
(* to NULL (relationship without delete cascade); file_id is NOT NULL, so  *)
(* the commit fails and is rolled back, and the record stays.              *)

DeleteFileResult(fid, permitted) ==
    IF fid \notin files THEN "File not found"
    ELSE IF ~permitted THEN "Permission denied"
    ELSE IF \E s \in sessions : s.file_id = fid THEN "Error deleting file"
    ELSE "File deleted successfully"

(* delete_file with a delete cascade on File.streaming_sessions: the      *)
(* file's sessions go with the record.                                     *)
DeleteFileCascading(fid, permitted) ==
    /\ files' = IF fid \in files /\ permitted THEN files \ {fid} ELSE files
    /\ disk' = IF fid \in files /\ permitted THEN disk \ {fid} ELSE disk
    /\ sessions' = IF fid \in files /\ permitted
                     THEN {s \in sessions : s.file_id # fid} ELSE sessions
    /\ last' = Call("delete_file", NoId, 0,
                    IF fid \notin files THEN "File not found"
                    ELSE IF ~permitted THEN "Permission denied"
                    ELSE "File deleted successfully")
    /\ UNCHANGED <<now, nextId, issued, revoked>>
    /\ UNCHANGED <<stats, access_logs, pending, inflight, http>>

DeleteFile(fid, permitted) ==
    /\ files' = IF DeleteFileResult(fid, permitted)
                     = "File deleted successfully"
                  THEN files \ {fid} ELSE files
    /\ disk' = IF DeleteFileResult(fid, permitted)
                     \in {"File deleted successfully", "Error deleting file"}
                 THEN disk \ {fid} ELSE disk
    /\ last' = Call("delete_file", NoId, 0, DeleteFileResult(fid, permitted))
    /\ UNCHANGED <<now, sessions, nextId, issued, revoked>>
    /\ UNCHANGED <<stats, access_logs, pending, inflight, http>>

----------------------------------------------------------------------------
(* routes/streaming.py update_position: POST /api/stream/<token>/position  *)

RouteUpdatePositionOutcome(token, position) ==
    IF VerifyStreamTokenOutcome(token).res # "ok"
      THEN Outcome("403", VerifyStreamTokenOutcome(token).rows)
    ELSE IF UpdateStreamingPositionOutcome(token.session_token, position).res
              = "True"
      THEN Outcome("200",
             UpdateStreamingPositionOutcome(token.session_token, position).rows)
    ELSE Outcome("400",
             UpdateStreamingPositionOutcome(token.session_token, position).rows)

RouteUpdatePosition(token, position) ==
    /\ sessions' = RouteUpdatePositionOutcome(token, position).rows
    /\ last' = Call("POST position", token.session_token, position,
                    RouteUpdatePositionOutcome(token, position).res)
    /\ UNCHANGED <<now, nextId, files, issued, revoked>>
    /\ UNCHANGED routeVars

----------------------------------------------------------------------------

Next ==
    \/ Tick
    \/ \E fid \in FileIds, uid \in UserIds, st \in SessionTokenInputs,
          dbOk \in BOOLEAN : GenerateStreamLink(fid, uid, st, dbOk)
    \/ \E fid \in FileIds, uid \in UserIds : GenerateDownloadLink(fid, uid)
    \/ \E fid \in FileIds, uid \in UserIds, pw \in IssuedPasswords,
          linkType \in LinkTypes :
            GeneratePasswordProtectedLink(fid, uid, pw, linkType)
    \/ \E token \in PresentedTokens : VerifyStreamToken(token)
    \/ \E token \in PresentedTokens : VerifyDownloadToken(token)
    \/ \E token \in PresentedTokens, pw \in Passwords :
            VerifyPasswordProtectedToken(token, pw)
    \/ \E st \in SessionTokenInputs, position \in Positions :
            UpdateStreamingPosition(st, position)
    \/ \E st \in SessionTokenInputs : GetStreamingPosition(st)
    \/ \E st \in SessionTokenInputs, dbOk \in BOOLEAN :
            RevokeStreamingSession(st, dbOk)
    \/ CleanupExpiredSessions
    \/ CleanupSystem
    \/ \E token \in PresentedTokens, position \in Positions :
            RouteUpdatePosition(token, position)

Spec == Init /\ [][Next]_vars

----------------------------------------------------------------------------
(* Concurrent link creation: generate_stream_link of two requests run by   *)
(* different workers.  A request draws its token and adds its row to its   *)
(* own database session (lines 20-31); the commit (line 32) is the point   *)
(* where the database checks the unique index, and the steps of the two    *)
(* requests interleave in any order.                                       *)

RequestUserIds == {1, 2}

PendingTokens == {p.session_token : p \in pending}

(* Tokens are named by the smallest number no row and no request holds. *)
HeldSessionTokens == UsedSessionTokens \cup PendingTokens

FreshSessionToken ==
    CHOOSE x \in 1..(Cardinality(HeldSessionTokens) + 1) :
        /\ x \notin HeldSessionTokens
        /\ \A y \in 1..(x - 1) : y \in HeldSessionTokens

(* The draw of a request in flight: a token already stored, the token of   *)
(* another request in flight, or a token nobody holds.                     *)
ConcurrentTokenInputs == HeldSessionTokens \cup {FreshSessionToken}

BeginStreamLink(fid, uid, st) ==
    /\ CanIssue
    /\ \A p \in pending : p.user_id # uid
    /\ pending' = pending \cup
          {[user_id |-> uid, file_id |-> fid, session_token |-> st,
            expires_at |-> now + STREAM_TOKEN_EXPIRES]}
    /\ last' = Call("generate_stream_link", st, 0, "pending")
    /\ UNCHANGED <<now, sessions, nextId, files, issued, revoked>>
    /\ UNCHANGED <<disk, stats, access_logs, inflight, http>>

CommitStreamLink(p, dbOk) ==
    /\ p \in pending
    /\ now \in IssueTimes
    /\ pending' = pending \ {p}
    /\ IF CommitSucceeds(p.session_token, dbOk)
         THEN /\ sessions' = sessions \cup
                    {NewStreamingSession(nextId, p.user_id, p.file_id,
                                         p.session_token, p.expires_at)}
              /\ nextId' = nextId + 1
              /\ issued' = issued \cup
                    {Issue(Payload(p.file_id, p.user_id, p.session_token,
                                   "stream", FALSE, NoHash, p.expires_at),
                           STREAM_TOKEN_EXPIRES, "generate_stream_link")}
              /\ last' = Call("generate_stream_link", p.session_token, 0,
                              "link")
         ELSE /\ UNCHANGED <<sessions, nextId, issued>>
              /\ last' = Call("generate_stream_link", p.session_token, 0,
                              "None")
    /\ UNCHANGED <<now, files, revoked>>
    /\ UNCHANGED <<disk, stats, access_logs, inflight, http>>

NextConcurrent ==
    \/ Tick
    \/ \E fid \in FileIds, uid \in RequestUserIds,
          st \in ConcurrentTokenInputs : BeginStreamLink(fid, uid, st)
    \/ \E p \in pending, dbOk \in BOOLEAN : CommitStreamLink(p, dbOk)

SpecConcurrent == Init /\ [][NextConcurrent]_vars

----------------------------------------------------------------------------
(* routes/streaming.py: GET /stream/<token>, GET /download/<token> and     *)
(* GET /api/stream/<token>/data, with the file service and the admin       *)
(* routes that act on the same rows.                                       *)

(* Bound of the download and stream counters *)
MaxCount == 1

(* AuthService.log_access: AccessLog(...) is given success and             *)
(* error_message, which are not columns of the model: the constructor      *)
(* raises TypeError, the except clause logs and rolls back, and no entry   *)
(* is stored.                                                              *)
LogAccessKeywords ==
    {"user_id", "file_id", "action", "ip_address", "user_agent", "success",
     "error_message"}

LogAccess(uid, fid, action) ==
    IF ~(LogAccessKeywords \subseteq AccessLogColumns) THEN access_logs
    ELSE Append(access_logs,
                [user_id |-> uid, file_id |-> fid, action |-> action,
                 success |-> TRUE])

(* File.increment_download_count / increment_stream_count *)
IncrementCount(fid, counter) ==
    [stats EXCEPT ![fid] = [@ EXCEPT ![counter] = @ + 1,
                                      !.last_accessed = now]]

(* The uploaded files are videos: stream_file renders the player. *)
MediaFiles == FileIds

(* send_file_response: abort(404) for a file that is not on disk raises    *)
(* NotFound inside the route's try block, whose except clause answers 500. *)
SendFileStatus(fid) == IF fid \in disk THEN "200" ELSE "500"

StreamFileStatus(token) ==
    IF VerifyStreamTokenOutcome(token).res # "ok" THEN "403"
    ELSE IF token.file_id \in MediaFiles THEN "200"
    ELSE SendFileStatus(token.file_id)

StreamFile(token) ==
    /\ StreamFileStatus(token) # "403"
          => stats[token.file_id].stream_count < MaxCount
    /\ sessions' = VerifyStreamTokenOutcome(token).rows
    /\ access_logs' =
          IF StreamFileStatus(token) = "403" THEN access_logs
          ELSE LogAccess(token.user_id, token.file_id, "stream")
    /\ stats' =
          IF StreamFileStatus(token) = "403" THEN stats
          ELSE IncrementCount(token.file_id, "stream_count")
    /\ last' = Call("GET stream", token.session_token, 0,
                    StreamFileStatus(token))
    /\ UNCHANGED <<now, nextId, files, issued, revoked>>
    /\ UNCHANGED <<disk, pending, inflight, http>>

(* log_access is entered when the arguments it is given do not fit       *)
(* AccessLog; its except clause (auth_service.py:172-174) rolls back and   *)
(* returns, so the caller never sees the failure.                          *)
LogAccessFails == ~(LogAccessKeywords \subseteq AccessLogColumns)

DownloadFileStatusLogRaises(token) ==
    IF VerifyDownloadTokenResult(token) # "ok" THEN "403"
    ELSE IF LogAccessFails THEN "500"
    ELSE SendFileStatus(token.file_id)

DownloadFileStatus(token) ==
    IF VerifyDownloadTokenResult(token) # "ok" THEN "403"
    ELSE SendFileStatus(token.file_id)

DownloadFile(token) ==
    /\ DownloadFileStatus(token) # "403"
          => stats[token.file_id].download_count < MaxCount
    /\ access_logs' =
          IF DownloadFileStatus(token) = "403" THEN access_logs
          ELSE LogAccess(token.user_id, token.file_id, "download")
    /\ stats' =
          IF DownloadFileStatus(token) = "403" THEN stats
          ELSE IncrementCount(token.file_id, "download_count")
    /\ last' = Call("GET download", token.session_token, 0,
                    DownloadFileStatus(token))
    /\ UNCHANGED <<now, sessions, nextId, files, issued, revoked>>
    /\ UNCHANGED <<disk, pending, inflight, http>>

(* stream_file_data: nothing is logged and no counter is touched.  http   *)
(* keeps the last exchange that reached the handling of the Range header.  *)
StreamFileDataResponse(token, header, file_size) ==
    IF VerifyStreamTokenOutcome(token).res # "ok" THEN ErrorResponse("403")
    ELSE IF token.file_id \notin disk THEN ErrorResponse("404")
    ELSE RangeResponse(file_size, header)

StreamFileData(token, header, file_size) ==
    /\ sessions' = VerifyStreamTokenOutcome(token).rows
    /\ http' =
          IF StreamFileDataResponse(token, header, file_size).status
                \in {"403", "404"}
            THEN http
            ELSE Exchange(file_size, header,
                          StreamFileDataResponse(token, header, file_size))
    /\ last' = Call("GET data", token.session_token, 0,
                    StreamFileDataResponse(token, header, file_size).status)
    /\ UNCHANGED <<now, nextId, files, issued, revoked>>
    /\ UNCHANGED <<disk, stats, access_logs, pending, inflight>>

(* The requests the data route is driven with *)
RequestedRanges == {NoRangeHeader, RangeHeader("bytes", 0, 1)}

RequestedFileSizes == {MaxFileSize}

NextRoutes ==
    \/ Tick
    \/ \E fid \in FileIds, uid \in UserIds, st \in SessionTokenInputs,
          dbOk \in BOOLEAN : GenerateStreamLink(fid, uid, st, dbOk)
    \/ \E fid \in FileIds, uid \in UserIds : GenerateDownloadLink(fid, uid)
    \/ \E fid \in FileIds, uid \in UserIds, pw \in IssuedPasswords,
          linkType \in LinkTypes :
            GeneratePasswordProtectedLink(fid, uid, pw, linkType)
    \/ \E token \in PresentedTokens : StreamFile(token)
    \/ \E token \in PresentedTokens : DownloadFile(token)
    \/ \E token \in PresentedTokens, header \in RequestedRanges,
          file_size \in RequestedFileSizes :
            StreamFileData(token, header, file_size)
    \/ \E fid \in FileIds, permitted \in BOOLEAN : DeleteFile(fid, permitted)

SpecRoutes == Init /\ [][NextRoutes]_vars

(* The operations that could remove or rewrite session rows: revocation,   *)
(* the sweep, the admin cleanup and the deletion of a file.                *)
NextAdmin ==
    \/ Tick
    \/ \E fid \in FileIds, uid \in UserIds, st \in SessionTokenInputs,
          dbOk \in BOOLEAN : GenerateStreamLink(fid, uid, st, dbOk)
    \/ \E st \in SessionTokenInputs, dbOk \in BOOLEAN :
            RevokeStreamingSession(st, dbOk)
    \/ CleanupExpiredSessions
    \/ CleanupSystem
    \/ \E fid \in FileIds, permitted \in BOOLEAN : DeleteFile(fid, permitted)

SpecAdmin == Init /\ [][NextAdmin]_vars

----------------------------------------------------------------------------
(* The range handling of stream_file_data on its own: the step taken once  *)
(* the token is verified and the file is found on disk.                    *)

ServeRange(file_size, header) ==
    /\ http' = Exchange(file_size, header, RangeResponse(file_size, header))
    /\ last' = Call("range", NoId, 0, RangeResponse(file_size, header).status)
    /\ UNCHANGED <<now, sessions, nextId, files, issued, revoked>>
    /\ UNCHANGED <<disk, stats, access_logs, pending, inflight>>

NextRange ==
    \E file_size \in FileSizes, header \in RangeHeaders :
        ServeRange(file_size, header)

SpecRange == Init /\ [][NextRange]_vars

----------------------------------------------------------------------------
(* update_streaming_position of concurrent requests: the row is loaded     *)
(* (auth_service.py:179), and in a later step the liveness check and the   *)
(* write are made on the loaded object (lines 180-183).  Revocation, the   *)
(* sweep and verification of other requests run between the two steps;     *)
(* each of them is a single step, because the sweep and the verification   *)
(* raise while their query is built, before the database is read, and      *)
(* revocation only reads before its commit.                                *)

LoadedUpdates == {u \in inflight : u.pc = "loaded"}

(* The update whose row was loaded while the session was live writes,     *)
(* whatever has happened to the session since.                             *)
FinishUpdateCheckedAtLoad(u) ==
    IF u.loaded = {} \/ ~u.live THEN Outcome("False", sessions)
    ELSE Outcome("True",
                 {IF s.id = FirstRow(u.loaded).id
                    THEN [s EXCEPT !.play_position = u.position] ELSE s :
                  s \in sessions})

(* Lines 180-183 on the object loaded at line 179: is_active is read from  *)
(* the loaded object, is_expired() compares with the time of the check.    *)
FinishUpdateOutcome(u) ==
    IF u.loaded = {} THEN Outcome("False", sessions)
    ELSE IF ~HasColumn("is_active") THEN Outcome("False", sessions)
    ELSE LET session == FirstRow(u.loaded) IN
      IF ~session.is_active THEN Outcome("False", sessions)
      ELSE IF ~HasMethod("is_expired") THEN Outcome("False", sessions)
      ELSE IF now > session.expires_at THEN Outcome("False", sessions)
      ELSE IF ~HasMethod("update_position") THEN Outcome("False", sessions)
      ELSE Outcome("True",
                   {IF s.id = session.id
                      THEN [s EXCEPT !.last_position = u.position] ELSE s :
                    s \in sessions})

(* Line 179.  One update is in flight at a time; live records whether    *)
(* the session was live when it was loaded, and the update answered        *)
(* before is forgotten.                                                    *)
LoadForUpdate(st, position) ==
    /\ LoadedUpdates = {}
    /\ inflight' = LoadedUpdates \cup
          {[pc |-> "loaded", session_token |-> st, position |-> position,
            loaded |-> RowsByToken(st),
            live |-> \E s \in RowsByToken(st) :
                        st \notin revoked /\ now < s.expires_at,
            res |-> NoValue]}
    /\ last' = Call("update_streaming_position", st, position, "pending")
    /\ UNCHANGED <<now, sessions, nextId, files, issued, revoked>>
    /\ UNCHANGED <<disk, stats, access_logs, pending, http>>

FinishUpdate(u) ==
    /\ u \in LoadedUpdates
    /\ sessions' = FinishUpdateOutcome(u).rows
    /\ inflight' = (inflight \ {u}) \cup
          {[u EXCEPT !.pc = "done", !.res = FinishUpdateOutcome(u).res]}
    /\ last' = Call("update_streaming_position", u.session_token,
                    u.position, FinishUpdateOutcome(u).res)
    /\ UNCHANGED <<now, nextId, files, issued, revoked>>
    /\ UNCHANGED <<disk, stats, access_logs, pending, http>>

NextInterleaved ==
    \/ Tick
    \/ \E fid \in FileIds, uid \in UserIds, st \in SessionTokenInputs,
          dbOk \in BOOLEAN : GenerateStreamLink(fid, uid, st, dbOk)
    \/ \E st \in SessionTokenInputs, position \in Positions :
            LoadForUpdate(st, position)
    \/ \E u \in inflight : FinishUpdate(u)
    \/ \E st \in SessionTokenInputs, dbOk \in BOOLEAN :
            RevokeStreamingSession(st, dbOk)
    \/ CleanupExpiredSessions
    \/ \E token \in PresentedTokens : VerifyStreamToken(token)

SpecInterleaved == Init /\ [][NextInterleaved]_vars

----------------------------------------------------------------------------
(* Properties *)

IssuedVia(token, ops) == \E i \in issued : i.token = token /\ i.via \in ops

Decodes(token) == JwtDecode(token) = "payload"

SessionOf(st) == {s \in sessions : s.session_token = st}

(* A session is live when it has not been revoked and has not expired. *)
LiveSession(st) ==
    \E s \in SessionOf(st) : st \notin revoked /\ now < s.expires_at

StaleSession(st) ==
    \E s \in SessionOf(st) : st \in revoked \/ now > s.expires_at

(* The issued stream tokens whose session token is st *)
StreamTokensOf(st) ==
    {t \in IssuedTokens : t.type = "stream" /\ t.session_token = st}

(* C1: a stream or download link issued at t0 with TTL T (stream: session  *)
(* not revoked) verifies at every time before t0+T and fails with "Token   *)
(* expired" at every time after t0+T.                                      *)
C1_Verification(i) ==
    IF i.via = "generate_stream_link"
      THEN VerifyStreamTokenOutcome(i.token).res
      ELSE VerifyDownloadTokenResult(i.token)

C1_VerifiesUntilExpiry ==
    \A i \in issued :
        (/\ i.token.file_id \in files
         /\ \/ /\ i.via = "generate_stream_link"
               /\ i.token.session_token \notin revoked
            \/ i.via = "generate_download_link")
        => /\ now < i.issued_at + i.ttl => C1_Verification(i) = "ok"
           /\ now > i.issued_at + i.ttl => C1_Verification(i) = "Token expired"

(* C2: verify_stream_token accepts a token only while its session has not  *)
(* been revoked and now < session.expires_at.                              *)
C2_AcceptsOnlyLiveSession ==
    /\ \A t \in PresentedTokens :
          VerifyStreamTokenOutcome(t).res = "ok"
              => LiveSession(t.session_token)
    /\ (last.op = "verify_stream_token" /\ last.res = "ok")
          => LiveSession(last.st)

C2_Witness ==
    /\ last.op = "verify_stream_token"
    /\ \E t \in StreamTokensOf(last.st) : Decodes(t)
    /\ last.st \in revoked
    /\ last.res # "ok"

(* C3: a decodable token of another kind is rejected with "Invalid token   *)
(* type" at the stream and at the download verification, and never         *)
(* accepted there.                                                         *)
C3_WrongKindRejected ==
    \A t \in PresentedTokens :
        /\ t.type # "stream"
              => /\ VerifyStreamTokenOutcome(t).res # "ok"
                 /\ Decodes(t) => VerifyStreamTokenOutcome(t).res
                                      = "Invalid token type"
        /\ t.type # "download"
              => /\ VerifyDownloadTokenResult(t) # "ok"
                 /\ Decodes(t) => VerifyDownloadTokenResult(t)
                                      = "Invalid token type"

C3_Witness ==
    /\ last.op = "verify_download_token"
    /\ \E t \in StreamTokensOf(last.st) : Decodes(t) /\ t.file_id \in files
    /\ last.res = "Invalid token type"

(* C4: the session lookup of verify_stream_token succeeds only for a row   *)
(* whose session_token, file_id and user_id equal the token's claims;      *)
(* without such a row the result is the not-found one.                     *)
MatchingRows(token) ==
    {s \in sessions : /\ s.session_token = token.session_token
                      /\ s.file_id = token.file_id
                      /\ s.user_id = token.user_id}

C4_LookupMatchesAllThree ==
    \A t \in PresentedTokens :
        (Decodes(t) /\ t.type = "stream")
        => /\ VerifyStreamTokenOutcome(t).res = "ok" => MatchingRows(t) # {}
           /\ MatchingRows(t) = {}
                 => VerifyStreamTokenOutcome(t).res
                        = "Invalid or expired session"

(* C5: a link issued by generate_password_protected_link is accepted by no *)
(* verification unless the password whose hash it embeds is supplied.      *)
C5_PasswordAlwaysRequired ==
    \A t \in PresentedTokens :
        IssuedVia(t, {"generate_password_protected_link"})
        => /\ VerifyStreamTokenOutcome(t).res # "ok"
           /\ VerifyDownloadTokenResult(t) # "ok"
           /\ \A pw \in Passwords :
                 VerifyPasswordProtectedTokenResult(t, pw) = "ok"
                     => HashPassword(pw) = t.password_hash

(* C6: verify_password_protected_token reports expiry and signature        *)
(* failures as the other verifications do, needs a live session for a      *)
(* stream token, fails with "Invalid password" on another password and     *)
(* succeeds with the right one on an otherwise valid token.                *)
C6_PasswordVerification ==
    \A t \in PresentedTokens : \A pw \in Passwords :
        t.password_protected
        => /\ JwtDecode(t) = "expired"
                 => VerifyPasswordProtectedTokenResult(t, pw) = "Token expired"
           /\ (Decodes(t) /\ HashPassword(pw) # t.password_hash)
                 => VerifyPasswordProtectedTokenResult(t, pw)
                        = "Invalid password"
           /\ (/\ Decodes(t)
               /\ t.type = "stream"
               /\ ~LiveSession(t.session_token))
                 => VerifyPasswordProtectedTokenResult(t, pw) # "ok"
           /\ (/\ Decodes(t)
               /\ HashPassword(pw) = t.password_hash
               /\ t.file_id \in files
               /\ t.type = "stream" => LiveSession(t.session_token))
                 => VerifyPasswordProtectedTokenResult(t, pw) = "ok"

(* C7: a successful generate_stream_link adds exactly one row, active,    *)
(* at position 0, expiring at issue time + stream TTL and carrying the     *)
(* session token of the returned link; no other call adds a row.           *)
IsActiveRow(r) == HasColumn("is_active") /\ r.is_active

C7_IssuanceAddsOneActiveRow ==
    [][last' # last =>
         IF last'.op = "generate_stream_link" /\ last'.res = "link"
           THEN \E r \in sessions' \ sessions :
                   /\ sessions' = sessions \cup {r}
                   /\ IsActiveRow(r)
                   /\ r.play_position = 0
                   /\ r.expires_at = now + STREAM_TOKEN_EXPIRES
                   /\ r.session_token = last'.st
           ELSE {r.id : r \in sessions'} \subseteq {r.id : r \in sessions}
      ]_vars

(* C8: generate_download_link leaves the session table as it was. *)
C8_DownloadIssueStateless ==
    [][last'.op = "generate_download_link" => sessions' = sessions]_vars

C8_Witness ==
    /\ last.op = "generate_download_link"
    /\ last.res = "link"
    /\ sessions # {}

(* C9: update_streaming_position(st, p) on a live session returns True     *)
(* and the get_streaming_position(st) that follows returns p.              *)
C9_UpdateThenGet ==
    (last.op = "update_streaming_position" /\ LiveSession(last.st))
        => /\ last.res = "True"
           /\ GetStreamingPositionResult(last.st) = last.pos

(* C10: a position update for a revoked or expired session is rejected     *)
(* and changes no field of any session.                                    *)
C10_StaleUpdateRejected ==
    [][/\ (last'.op = "update_streaming_position" /\ StaleSession(last'.st))
            => (last'.res = "False" /\ sessions' = sessions)
       /\ (last'.op = "POST position" /\ StaleSession(last'.st))
            => (last'.res # "200" /\ sessions' = sessions)
      ]_vars

C10_Witness ==
    /\ last.op = "update_streaming_position"
    /\ last.st \in revoked
    /\ \E s \in SessionOf(last.st) : now > s.expires_at
    /\ last.res = "False"

(* C11: after a sweep at time now every session that was active with      *)
(* expires_at < now is inactive, every other session keeps its is_active   *)
(* value, and no session's position, expiry or identity fields change.     *)
(* A session is created active and stays so until it is deactivated.       *)
IsInactiveRow(r) == HasColumn("is_active") /\ ~r.is_active

ExpiredAndActive(s) == s.expires_at < now /\ s.session_token \notin revoked

C11_SweepDeactivatesExpired ==
    [][last'.op = "cleanup_expired_sessions" =>
         \A s \in sessions : \E r \in sessions' :
             /\ r.id = s.id
             /\ r.user_id = s.user_id
             /\ r.file_id = s.file_id
             /\ r.session_token = s.session_token
             /\ r.expires_at = s.expires_at
             /\ r.play_position = s.play_position
             /\ ExpiredAndActive(s) => IsInactiveRow(r)
             /\ ~ExpiredAndActive(s) => (IsActiveRow(r) <=> IsActiveRow(s))
      ]_vars

(* C12: the sweep returns the number of sessions it deactivated: the       *)
(* count of expired-and-active sessions on a first call, and 0 on a call   *)
(* that directly follows another sweep.                                    *)
C12_SweepReturnsCount ==
    [][last'.op = "cleanup_expired_sessions" =>
         IF last.op = "cleanup_expired_sessions"
           THEN last'.res = ToString(0)
           ELSE last'.res =
                  ToString(Cardinality({s \in sessions : ExpiredAndActive(s)}))
      ]_vars

(* C13: liveness is monotonic: a session that is revoked or expired stays  *)
(* so, and no later verification or position call addressed to it is       *)
(* served.                                                                 *)
C13_LivenessMonotonic ==
    [][\A s \in sessions :
          StaleSession(s.session_token) =>
            /\ StaleSession(s.session_token)'
            /\ (/\ last'.st = s.session_token
                /\ last'.op \in {"verify_stream_token",
                                 "update_streaming_position",
                                 "get_streaming_position", "POST position"})
                  => /\ last'.res \notin {"ok", "True", "200"}
                     /\ last'.op = "get_streaming_position"
                           => last'.pos = 0
      ]_vars

C13_Witness ==
    /\ last.op = "get_streaming_position"
    /\ last.st \in revoked
    /\ last.pos = 0
    /\ last.res = "position"

(* C15: a verification, position update, position read or revocation      *)
(* addressed to session A leaves every other session's row and active      *)
(* state as they were, also for sessions of the same file.                 *)
SessionOps ==
    {"verify_stream_token", "update_streaming_position",
     "get_streaming_position", "revoke_streaming_session", "POST position"}

C15_CrossSessionIsolation ==
    [][last'.op \in SessionOps =>
         /\ \A s \in sessions : s.session_token # last'.st => s \in sessions'
         /\ revoked' \ revoked \subseteq {last'.st}
      ]_vars

C15_Witness ==
    /\ last.op = "update_streaming_position"
    /\ \E a \in sessions, b \in sessions :
          /\ a.session_token = last.st
          /\ b.session_token # last.st
          /\ a.file_id = b.file_id
          /\ b.play_position = 0

(* C16: no two StreamingSession rows share a session_token, also when     *)
(* sessions for the same file and different users are created              *)
(* concurrently.                                                           *)
C16_SessionTokensUnique ==
    \A r \in sessions, s \in sessions :
        r.session_token = s.session_token => r = s

C16_Witness ==
    /\ last.op = "generate_stream_link"
    /\ last.res = "None"
    /\ \E r \in sessions, s \in sessions :
          /\ r.user_id # s.user_id
          /\ r.file_id = s.file_id
          /\ r.session_token = last.st

ServableStreamTokens ==
    {i.token : i \in {j \in issued :
        /\ j.via = "generate_stream_link"
        /\ Decodes(j.token)
        /\ LiveSession(j.token.session_token)
        /\ j.token.file_id \in files \cap disk}}

(* C17: for a file of size S and Range: bytes=a-b with 0 <= a <= b < S     *)
(* the data endpoint answers 206, Content-Range a-b/S, Content-Length      *)
(* b-a+1, Accept-Ranges bytes, and the b-a+1 bytes from offset a.          *)
C17_RangeServed ==
    \A token \in ServableStreamTokens, S \in FileSizes :
        \A a \in RangeOffsets, b \in RangeOffsets :
            (a <= b /\ b < S)
            => StreamFileDataResponse(token, RangeHeader("bytes", a, b), S)
                 = Response("206", [first |-> a, last |-> b, size |-> S],
                            b - a + 1, "bytes", a, b - a + 1)

(* The same of the handling of the Range header alone *)
RangeStepServes ==
    \A S \in FileSizes, a \in RangeOffsets, b \in RangeOffsets :
        (a <= b /\ b < S)
        => RangeResponse(S, RangeHeader("bytes", a, b))
             = Response("206", [first |-> a, last |-> b, size |-> S],
                        b - a + 1, "bytes", a, b - a + 1)

(* C18: a range whose end is at or beyond the file size, with start <      *)
(* size, is clamped: bytes=a-b with a < S <= b gives 206, Content-Range    *)
(* a-(S-1)/S and Content-Length S-a.                                       *)
C18_RangeClamped ==
    \A token \in ServableStreamTokens, S \in FileSizes :
        \A a \in RangeOffsets, b \in RangeOffsets :
            (a < S /\ S <= b)
            => StreamFileDataResponse(token, RangeHeader("bytes", a, b), S)
                 = Response("206", [first |-> a, last |-> S - 1, size |-> S],
                            S - a, "bytes", a, S - a)

RangeStepClamps ==
    \A S \in FileSizes, a \in RangeOffsets, b \in RangeOffsets :
        (a < S /\ S <= b)
        => RangeResponse(S, RangeHeader("bytes", a, b))
             = Response("206", [first |-> a, last |-> S - 1, size |-> S],
                        S - a, "bytes", a, S - a)

(* C19: a range with start >= size, or with start > end after clamping,    *)
(* is answered 416 with Content-Range: bytes */size, never 206.            *)
ClampedStart(header) ==
    Max2(0, IF header.first # NoRange THEN header.first ELSE 0)

ClampedEnd(file_size, header) ==
    Min2(file_size - 1,
         IF header.second # NoRange THEN header.second ELSE file_size - 1)

Unsatisfiable(file_size, header) ==
    \/ ClampedStart(header) >= file_size
    \/ ClampedStart(header) > ClampedEnd(file_size, header)

C19_UnsatisfiableRange ==
    (http.header.kind = "bytes" /\ Unsatisfiable(http.file_size, http.header))
    => /\ http.response.status = "416"
       /\ http.response.content_range
            = [first |-> NoRange, last |-> NoRange, size |-> http.file_size]

(* C20: every stream or download attempt, served or rejected, adds one     *)
(* access-log entry with actor, file, action and success flag.             *)
C20_EveryAttemptLogged ==
    [][last'.op \in {"GET stream", "GET download", "GET data"} =>
         /\ Len(access_logs') = Len(access_logs) + 1
         /\ LET e == access_logs'[Len(access_logs')]
            IN /\ e.action \in {"stream", "download"}
               /\ e.success = (last'.res \in {"200", "206"})
      ]_vars

(* C21: a failure to persist an access-log entry never aborts the request: *)
(* a stream or download that passed verification and whose audit write     *)
(* fails still counts the access and returns the response of the file      *)
(* itself, and no session row changes.                                     *)
C21_AuditFailureDoesNotAbort ==
    [][(/\ last'.op \in {"GET download", "GET stream"}
        /\ last'.res # "403"
        /\ LogAccessFails)
         => /\ sessions' = sessions
            /\ \E fid \in FileIds :
                  /\ stats'[fid] # stats[fid]
                  /\ last'.res = IF last'.op = "GET download"
                                   THEN SendFileStatus(fid) ELSE "200"
      ]_vars

C21_Witness ==
    /\ last.op = "GET download"
    /\ last.res = "200"
    /\ LogAccessFails
    /\ access_logs = <<>>
    /\ \E fid \in FileIds : stats[fid].download_count > 0

(* C23: POST /api/stream/<token>/position with a validly signed, unexpired *)
(* stream token answers 200 while the session is active and unexpired and  *)
(* 400 when the session is inactive or expired.                            *)
C23_PositionRouteStatus ==
    \A token \in IssuedTokens, position \in Positions :
        (token.type = "stream" /\ Decodes(token))
        => /\ LiveSession(token.session_token)
                => RouteUpdatePositionOutcome(token, position).res = "200"
           /\ StaleSession(token.session_token)
                => RouteUpdatePositionOutcome(token, position).res = "400"

(* C24: stale sessions accept no writes under concurrency: once a session  *)
(* is revoked or past its expiry, no step of any interleaving of position  *)
(* updates with revocation, the sweep and verification changes its stored  *)
(* position; an update that loaded the session before the deactivation     *)
(* does not land after it.                                                 *)
C24_StaleSessionsAcceptNoWrites ==
    [][\A s \in sessions :
          StaleSession(s.session_token)
          => \E r \in sessions' :
                r.id = s.id /\ r.play_position = s.play_position]_vars

C24_Witness ==
    \E u \in inflight :
        /\ u.pc = "done"
        /\ u.live
        /\ u.res = "False"
        /\ StaleSession(u.session_token)
        /\ last.op = "update_streaming_position"
        /\ \A s \in SessionOf(u.session_token) : s.play_position = 0

(* C25: the sweep is safe to run concurrently with itself, verification    *)
(* and position updates: in every interleaving a sweep does not fail, and  *)
(* it leaves every expired session inactive and no unexpired unrevoked     *)
(* session deactivated.                                                    *)
C25_SweepSafeConcurrently ==
    [][last'.op = "cleanup_expired_sessions" =>
         /\ ~CleanupExpiredSessionsFails
         /\ \A r \in sessions' :
               /\ r.expires_at < now => IsInactiveRow(r)
               /\ (r.expires_at >= now /\ r.session_token \notin revoked)
                     => ~IsInactiveRow(r)
      ]_vars

(* C26: a Range header that lists several ranges is served as its first    *)
(* range only: the response is the 206 that the first range alone would    *)
(* produce, not an error.                                                  *)
C26_MultiRangeServedAsFirst ==
    http.header.kind = "multi"
    => /\ http.response.status = "206"
       /\ http.response =
             RangeResponse(http.file_size,
                           RangeHeader("bytes", http.header.first,
                                       http.header.second))

(* C27: for every request answered 206, the chunked read loop ends, no     *)
(* chunk is longer than the chunk size, and the bytes yielded add up to    *)
(* the declared Content-Length = end - start + 1.                          *)
C27_Chunks ==
    ChunkLengths(http.response.body.first, http.response.content_length,
                 http.file_size)

C27_ChunkedReadMatchesLength ==
    http.response.status = "206"
    => /\ \A i \in 1..Len(C27_Chunks) : C27_Chunks[i] <= ChunkSize
       /\ http.response.content_length
             = http.response.content_range.last
                 - http.response.content_range.first + 1
       /\ http.response.body.count = http.response.content_length

(* C28: stream-link issuance is all-or-nothing: a generate_stream_link     *)
(* that returns no link leaves no session row behind, so there are always  *)
(* as many session rows as stream links returned.                          *)
C28_IssuanceAllOrNothing ==
    [][/\ (last'.op = "generate_stream_link" /\ last'.res = "None")
            => sessions' = sessions
       /\ Cardinality(sessions')
             = Cardinality({i \in issued' :
                              i.via = "generate_stream_link"})]_vars

C28_Witness ==
    /\ last.op = "generate_stream_link"
    /\ last.res = "None"
    /\ Cardinality(sessions) = 1
    /\ Cardinality({i \in issued : i.via = "generate_stream_link"}) = 1

(* C29: verification does not consume a token: verify_stream_token of a    *)
(* token whose session is live succeeds, changes no session, and succeeds  *)
(* again when repeated; no verification changes anything of a session but  *)
(* its is_active flag.                                                     *)
C29_VerificationDoesNotConsume ==
    [][\A token \in PresentedTokens :
          VerifyStreamToken(token)
          => /\ token \in ServableStreamTokens
                  => /\ last'.res = "ok"
                     /\ sessions' = sessions
                     /\ VerifyStreamTokenOutcome(token)'.res = "ok"
             /\ \A s \in sessions : \E r \in sessions' :
                    /\ r.id = s.id
                    /\ r.user_id = s.user_id
                    /\ r.file_id = s.file_id
                    /\ r.session_token = s.session_token
                    /\ r.expires_at = s.expires_at
                    /\ r.play_position = s.play_position]_vars

(* C30: the outcome of verify_download_token depends only on the token,    *)
(* the time and the existence of the file record: no step that leaves the  *)
(* time and the file records alone (revocation, sweep, position update,    *)
(* issuance, verification) changes it for any token, so a download link    *)
(* cannot be revoked before its expiry.                                    *)
C30_DownloadVerificationIndependent ==
    [][(now' = now /\ files' = files)
         => \A token \in PresentedTokens :
               VerifyDownloadTokenResult(token)'
                 = VerifyDownloadTokenResult(token)]_vars

C30_Witness ==
    /\ last.op = "revoke_streaming_session"
    /\ last.res = "True"
    /\ \E i \in issued, s \in SessionOf(last.st) :
          /\ i.via = "generate_download_link"
          /\ i.token.user_id = s.user_id
          /\ i.token.file_id = s.file_id
          /\ VerifyDownloadTokenResult(i.token) = "ok"
====
